---- MODULE Spec2Model ----
(***************************************************************************)
(* Social-engineering simulator: identity resolution, the Progress row     *)
(* state machine, the scoring functions and the session token codec.       *)
(*                                                                         *)
(* The relational store is the shared state.  A request handler is a       *)
(* sequence of storage operations (a query, or a flush-and-commit); each   *)
(* storage operation is one atomic step, and handlers of different         *)
(* requests interleave between steps.  An ORM object holds the column      *)
(* values it loaded; a flush writes only the columns whose value differs   *)
(* from the loaded one (SQLAlchemy unit of work), with no row version      *)
(* check and no SELECT ... FOR UPDATE anywhere in the handlers.            *)
(***************************************************************************)
EXTENDS Integers, Sequences, FiniteSets, TLC

\* ------------------------------------------------------------------ bounds
\* Handlers that may be in flight at once.
MaxInflight == 2
\* Requests begun in one behaviour.
MaxRequests == 2
\* Largest |delta| drawn for apply_score_delta (besides the huge ones).
MaxDelta == 110
\* How far outside 0..100 the scores given to compute_level reach.
ScoreMargin == 3
\* Clock ticks per second (time.time() is a float; int() truncates it).
TicksPerSecond == 2
\* Latest clock tick at which a token is issued.
MaxIssueTick == 21
\* Seconds around the end of the 14-day window the clock visits.
MaxOverrun == 2

\* Longest attempt history given to the achievement functions.
MaxHistory == 6

\* Largest correct_count given to compute_achievements.
MaxCorrect == 6

\* Largest mistake count of one tactic in a breakdown.
MaxMistakes == 2

\* Largest max_tips given to get_tips_for_weak_tactics.
MaxTips == 6

\* Largest counter value of the Progress state given to both submission
\* entry points.
MaxCounter == 2

\* --------------------------------------------------------- scoring.py
INITIAL_RISK_SCORE == 50
MIN_SCORE == 0
MAX_SCORE == 100

Max2(a, b) == IF a >= b THEN a ELSE b
Min2(a, b) == IF a <= b THEN a ELSE b

\* Mutants of apply_score_delta: the upper clamp lost; the lower clamp lost.
apply_score_delta_no_cap(current, delta) == Max2(MIN_SCORE, current + delta)
apply_score_delta_no_floor(current, delta) == Min2(MAX_SCORE, current + delta)

\* apply_score_delta: max(MIN_SCORE, min(MAX_SCORE, current + delta)).
\* Python integers are unbounded: the sum neither wraps nor raises.
apply_score_delta(current, delta) ==
    Max2(MIN_SCORE, Min2(MAX_SCORE, current + delta))

\* Mutant of LEVEL_BANDS: the second band starts one late, leaving 21 out.
LEVEL_BANDS_gap ==
    << [low |-> 0,  high |-> 20,  label |-> "Security Ninja"],
       [low |-> 22, high |-> 40,  label |-> "Aware User"],
       [low |-> 41, high |-> 60,  label |-> "Rookie"],
       [low |-> 61, high |-> 80,  label |-> "At Risk"],
       [low |-> 81, high |-> 100, label |-> "High Risk"] >>

\* LEVEL_BANDS, in list order.
LEVEL_BANDS ==
    << [low |-> 0,  high |-> 20,  label |-> "Security Ninja"],
       [low |-> 21, high |-> 40,  label |-> "Aware User"],
       [low |-> 41, high |-> 60,  label |-> "Rookie"],
       [low |-> 61, high |-> 80,  label |-> "At Risk"],
       [low |-> 81, high |-> 100, label |-> "High Risk"] >>

\* compute_level: the first band (in list order) that contains the score;
\* the trailing `return "Rookie"` is the fallback.  The result records which
\* return statement produced the label.
compute_level(risk_score) ==
    LET hits == { i \in 1..Len(LEVEL_BANDS) :
                    /\ LEVEL_BANDS[i].low <= risk_score
                    /\ risk_score <= LEVEL_BANDS[i].high }
    IN  IF hits = {}
        THEN [label |-> "Rookie", fallback |-> TRUE]
        ELSE LET first == CHOOSE i \in hits : \A j \in hits : i <= j
             IN  [label |-> LEVEL_BANDS[first].label, fallback |-> FALSE]

\* -------------------------------------------------- scenario catalog
\* Scenario rows (read-only content): id = index, tactic, choices_json as a
\* list of {is_safe, score_delta}.  score_delta is supplied by content; the
\* catalog holds the usual -5 / +10 and two deltas large enough to saturate.
Scenarios ==
    << [tactic  |-> "Urgency",
        choices |-> << [is_safe |-> TRUE,  score_delta |-> -5],
                       [is_safe |-> FALSE, score_delta |-> 10] >>],
       [tactic  |-> "Authority",
        choices |-> << [is_safe |-> TRUE,  score_delta |-> -60],
                       [is_safe |-> FALSE, score_delta |-> 60] >>] >>

\* (scenario_id, choice_index) pairs a client may post: every valid pair, a
\* scenario id that names no scenario, and choice indexes below 0 and at
\* len(choices).
SubmitInputs ==
    { <<s, c>> : s \in 1..Len(Scenarios), c \in 0..1 }
        \cup { <<Len(Scenarios) + 1, 0>>, <<1, -1>>, <<1, 2>> }

ScenarioExists(sid) == sid \in 1..Len(Scenarios)

ChoiceValid(sid, c) ==
    /\ ScenarioExists(sid)
    /\ ~(c < 0 \/ c >= Len(Scenarios[sid].choices))

\* choices_data[choice_index] (0-based).
ChoiceOf(sid, c) == Scenarios[sid].choices[c + 1]

\* ------------------------------------------------------- auth.py helpers
\* Characters of the modelled email strings.
Lower(ch) == IF ch = "A" THEN "a" ELSE IF ch = "B" THEN "b" ELSE ch

RECURSIVE LStrip(_)
LStrip(s) == IF s # <<>> /\ Head(s) = " " THEN LStrip(Tail(s)) ELSE s

RECURSIVE RStrip(_)
RStrip(s) ==
    IF s # <<>> /\ s[Len(s)] = " " THEN RStrip(SubSeq(s, 1, Len(s) - 1)) ELSE s

\* _normalize_email: (email or "").strip().lower()
_normalize_email(email) ==
    LET t == RStrip(LStrip(email)) IN [i \in 1..Len(t) |-> Lower(t[i])]

\* Email form values posted to /register (all pass EMAIL_RE once normalized;
\* the password passes the length checks).
RawEmails == { <<"a">>, <<" ", "A">>, <<"b">> }

\* ------------------------------------------------------------- state
VARIABLES
    users,        \* users table: row id = index; [email]
    progress,     \* progress table: row id = index
    attempts,     \* attempts table in id order (rows of a reset are deleted)
    req,          \* request handlers in flight, by slot
    nreq,         \* requests begun so far
    uuids,        \* uuid4 values generated so far
    tokens,       \* user ids that hold an auth token from a response
    jar,          \* guest-cookie values set on a response
    score_in,     \* input of the pure scoring functions
    score_out,    \* their results
    now,          \* token clock, in ticks
    minted,       \* tokens issued by create_session_token
    verdict,      \* last verify_session_token call
    forged,       \* last verify_session_token call on an altered token
    resolved      \* identity resolutions made, in order

dbvars == <<users, progress, attempts>>
reqvars == <<req, nreq, uuids, tokens, jar>>
scorevars == <<score_in, score_out>>
probevars == <<forged, resolved>>
tokenvars == <<now, minted, verdict, probevars>>
vars == <<users, progress, attempts, req, nreq, uuids, tokens, jar,
          score_in, score_out, now, minted, verdict, forged, resolved>>

Slots == 1..MaxInflight

\* NULL of progress.session_id / an absent cookie; NULL of user_id is 0
\* (autoincrement ids start at 1).
NoSid == <<>>
\* The guest-cookie values a client presents of its own making.
ClientSids == { <<"cookie", 1>> }
Uuid(k) == <<"uuid", k>>

WebKinds == {"page", "train", "reset"}
ApiKinds == {"stats", "attempt"}
SubmitKinds == {"train", "attempt"}

NoLoad == [risk_score |-> 0, total_attempted |-> 0, correct_count |-> 0,
           current_streak |-> 0]

Idle ==
    [pc |-> "idle", kind |-> "none", sid |-> NoSid, auth |-> 0,
     scenario_id |-> 0, choice_index |-> 0, email |-> <<>>, link |-> FALSE,
     user |-> 0, use_sid |-> NoSid, pid |-> 0, ld |-> NoLoad]

\* Progress(...) as both get_or_create_progress functions construct it.
NewProgress(session_id, user_id) ==
    [session_id |-> session_id, user_id |-> user_id,
     risk_score |-> INITIAL_RISK_SCORE, total_attempted |-> 0,
     correct_count |-> 0, current_streak |-> 0]

\* The column values an ORM object holds after a query or a refresh.
Loaded(row) ==
    [risk_score |-> row.risk_score, total_attempted |-> row.total_attempted,
     correct_count |-> row.correct_count, current_streak |-> row.current_streak]

RowIds == 1..Len(progress)
BySession(s) == { i \in RowIds : progress[i].session_id = s }
ByUser(u) == { i \in RowIds : progress[i].user_id = u }

StoreInit ==
    /\ users = <<>>
    /\ progress = <<>>
    /\ attempts = <<>>
    /\ req = [r \in Slots |-> Idle]
    /\ nreq = 0
    /\ uuids = 0
    /\ tokens = {}
    /\ jar = {}

ScoreIdle ==
    /\ score_in = [current |-> 0, delta |-> 0, score |-> 0]
    /\ score_out = [applied |-> << >>, level |-> << >>]

ProbeIdle ==
    /\ forged = [called |-> FALSE]
    /\ resolved = << >>

TokenIdle ==
    /\ now = 0
    /\ minted = {}
    /\ verdict = [called |-> FALSE]
    /\ ProbeIdle

Init == StoreInit /\ ScoreIdle /\ TokenIdle

\* ------------------------------------------- get_or_create_progress
\* web.get_current_user_optional: the user the auth cookie verifies to (the
\* cookie is absent or invalid when auth = 0); None for the API, whose
\* get_or_create_progress takes no current_user.
CurrentUser(q) == IF q.kind \in WebKinds THEN q.auth ELSE 0

\* Mutant of EnsureSessionCookie: the cookie is set whenever the progress
\* row has a session_id.
EnsureSessionCookie_always(q, row_session_id) ==
    IF q.kind \in WebKinds /\ row_session_id # NoSid
    THEN jar \cup {row_session_id}
    ELSE jar

\* _ensure_session_cookie: the cookie is set when the progress row has a
\* session_id and the request carried no guest cookie.  The API handlers
\* build no response cookie at all.
EnsureSessionCookie(q, row_session_id) ==
    IF q.kind \in WebKinds /\ row_session_id # NoSid /\ q.sid = NoSid
    THEN jar \cup {row_session_id}
    ELSE jar

\* The handler of request q (slot r) once it holds the progress object `row`
\* (id pid): the page and stats handlers answer; the others go on to their
\* commit with the loaded column values.
Holding(r, q, pid, row) ==
    IF q.kind \in {"page", "stats"}
    THEN /\ req' = [req EXCEPT ![r] = Idle]
         /\ jar' = EnsureSessionCookie(q, row.session_id)
    ELSE /\ req' = [req EXCEPT ![r] =
                      [q EXCEPT !.pc = "handle", !.pid = pid,
                                !.ld = Loaded(row), !.user = 0,
                                !.use_sid = NoSid]]
         /\ UNCHANGED jar

\* The query of get_or_create_progress for request q.  Account branch
\* (web.py 66-68): .first() of the rows with this user_id, in no stated
\* order.  Guest branch (web.py 81-82, api.py 40-43):
\* get_or_create_session_id gives the cookie value, or a fresh uuid4 when
\* there is none, and the row is looked up by session_id.
QueryProgress(r, q) ==
    LET u == CurrentUser(q)
        fresh == u = 0 /\ q.sid = NoSid
        sid == IF fresh THEN Uuid(uuids + 1) ELSE q.sid
        found == IF u # 0 THEN ByUser(u) ELSE BySession(sid)
    IN  /\ uuids' = IF fresh THEN uuids + 1 ELSE uuids
        /\ \/ /\ found = {}
              /\ req' = [req EXCEPT ![r] =
                           [q EXCEPT !.pc = "insert", !.user = u,
                                     !.use_sid = IF u # 0 THEN NoSid ELSE sid]]
              /\ UNCHANGED jar
           \/ \E i \in found : Holding(r, q, i, progress[i])

\* ------------------------------------------------------ request start
\* A request arrives in a free handler slot (the lowest: slots are
\* interchangeable) and runs up to its first storage operation.  `budget`
\* bounds the requests of one behaviour.
FreeSlot(r, budget) ==
    /\ req[r].pc = "idle"
    /\ \A r2 \in Slots : r2 < r => req[r2].pc # "idle"
    /\ nreq < budget

\* The guest-cookie and auth-cookie values a client can send: a guest cookie
\* of its own making or one a response set, an auth cookie a response set.
SidsHeld == {NoSid} \cup ClientSids \cup jar
AuthsHeld == {0} \cup tokens

\* No request that presents one of these credentials is still in flight: the
\* client that holds them has had the response to its previous request.
ClientIdle(sid, auth) ==
    \A r2 \in Slots :
        req[r2].pc # "idle" =>
            /\ ~(sid # NoSid /\ req[r2].sid = sid)
            /\ ~(auth # 0 /\ req[r2].auth = auth)

\* GET / , GET /train, GET /result (page), GET /api/stats, POST /reset.
\* With `waits`, clients wait for a response before their next request.
StartPlainOf(r, budget, waits) ==
    /\ FreeSlot(r, budget)
    /\ \E kind \in {"page", "stats", "reset"},
          sid \in SidsHeld, auth \in AuthsHeld :
         /\ waits => ClientIdle(sid, auth)
         /\ QueryProgress(r, [Idle EXCEPT !.kind = kind, !.sid = sid,
                                          !.auth = auth])
    /\ nreq' = nreq + 1
    /\ UNCHANGED <<dbvars, tokens, scorevars, tokenvars>>

\* POST /train (train) and POST /api/attempts (attempt).
StartSubmitOf(r, budget, waits) ==
    /\ FreeSlot(r, budget)
    /\ \E kind \in SubmitKinds,
          sid \in SidsHeld, auth \in AuthsHeld,
          inp \in SubmitInputs :
         /\ waits => ClientIdle(sid, auth)
         /\ QueryProgress(r, [Idle EXCEPT !.kind = kind, !.sid = sid,
                                          !.auth = auth,
                                          !.scenario_id = inp[1],
                                          !.choice_index = inp[2]])
    /\ nreq' = nreq + 1
    /\ UNCHANGED <<dbvars, tokens, scorevars, tokenvars>>

StartPlain(r) == StartPlainOf(r, MaxRequests, FALSE)
StartSubmit(r) == StartSubmitOf(r, MaxRequests, FALSE)

\* db.add(progress); db.commit(); db.refresh(progress), account branch
\* (web.py 69-79).  ix_progress_user_id is not unique: the insert succeeds
\* whatever rows exist.
InsertAccount(r) ==
    /\ req[r].pc = "insert"
    /\ req[r].user # 0
    /\ LET row == NewProgress(NoSid, req[r].user) IN
         /\ progress' = Append(progress, row)
         /\ Holding(r, req[r], Len(progress) + 1, row)
    /\ UNCHANGED <<users, attempts, nreq, uuids, tokens, scorevars, tokenvars>>

\* The guest branch (web.py 84-93, api.py 45-55).  ix_progress_session_id is
\* unique: the insert succeeds when no row holds this session_id.
InsertGuest(r) ==
    /\ req[r].pc = "insert"
    /\ req[r].user = 0
    /\ BySession(req[r].use_sid) = {}
    /\ LET row == NewProgress(req[r].use_sid, 0) IN
         /\ progress' = Append(progress, row)
         /\ Holding(r, req[r], Len(progress) + 1, row)
    /\ UNCHANGED <<users, attempts, nreq, uuids, tokens, scorevars, tokenvars>>

\* The same insert when another request has committed a row with this
\* session_id since the query: the commit raises IntegrityError, which no
\* handler catches, and the request ends as a server error.
InsertGuestConflict(r) ==
    /\ req[r].pc = "insert"
    /\ req[r].user = 0
    /\ BySession(req[r].use_sid) # {}
    /\ req' = [req EXCEPT ![r] = Idle]
    /\ UNCHANGED <<dbvars, nreq, uuids, tokens, jar, scorevars, tokenvars>>

\* ------------------------------------------------ attempt submission
\* Mutant of train_post_step: the streak is not reset by an unsafe choice.
train_post_step_keeps_streak(ld, choice) ==
    [risk_score      |-> apply_score_delta(ld.risk_score, choice.score_delta),
     total_attempted |-> ld.total_attempted + 1,
     correct_count   |-> IF choice.is_safe THEN ld.correct_count + 1
                         ELSE ld.correct_count,
     current_streak  |-> IF choice.is_safe THEN ld.current_streak + 1
                         ELSE ld.current_streak]

\* The progress update of train_post (web.py 196-202), on the loaded values.
train_post_step(ld, choice) ==
    [risk_score      |-> apply_score_delta(ld.risk_score, choice.score_delta),
     total_attempted |-> ld.total_attempted + 1,
     correct_count   |-> IF choice.is_safe THEN ld.correct_count + 1
                         ELSE ld.correct_count,
     current_streak  |-> IF choice.is_safe THEN ld.current_streak + 1 ELSE 0]

\* The progress update of submit_attempt (api.py 104-110).
submit_attempt_step(ld, choice) ==
    [risk_score      |-> apply_score_delta(ld.risk_score, choice.score_delta),
     total_attempted |-> ld.total_attempted + 1,
     correct_count   |-> IF choice.is_safe THEN ld.correct_count + 1
                         ELSE ld.correct_count,
     current_streak  |-> IF choice.is_safe THEN ld.current_streak + 1 ELSE 0]

\* The flush of a modified ORM object: UPDATE progress SET <the columns whose
\* value differs from the loaded one> WHERE id = :id.
Flush(row, ld, new) ==
    [row EXCEPT
       !.risk_score      = IF new.risk_score # ld.risk_score
                           THEN new.risk_score ELSE @,
       !.total_attempted = IF new.total_attempted # ld.total_attempted
                           THEN new.total_attempted ELSE @,
       !.correct_count   = IF new.correct_count # ld.correct_count
                           THEN new.correct_count ELSE @,
       !.current_streak  = IF new.current_streak # ld.current_streak
                           THEN new.current_streak ELSE @]

\* Mutant of NewAttempt: is_safe is taken from the scenario's first choice.
NewAttempt_first_choice(pid, sid, c) ==
    [progress_id |-> pid, scenario_id |-> sid, choice_index |-> c,
     is_safe |-> ChoiceOf(sid, 0).is_safe, tactic |-> Scenarios[sid].tactic]

\* Attempt(...) as both handlers construct it.
NewAttempt(pid, sid, c) ==
    [progress_id |-> pid, scenario_id |-> sid, choice_index |-> c,
     is_safe |-> ChoiceOf(sid, c).is_safe, tactic |-> Scenarios[sid].tactic]

\* HTTPException 404 / 400 (web.py 185-190, api.py 91-98): raised after the
\* get_or_create_progress dependency has run.
SubmitReject(r) ==
    /\ req[r].pc = "handle"
    /\ req[r].kind \in SubmitKinds
    /\ ~ChoiceValid(req[r].scenario_id, req[r].choice_index)
    /\ req' = [req EXCEPT ![r] = Idle]
    /\ UNCHANGED <<dbvars, nreq, uuids, tokens, jar, scorevars, tokenvars>>

\* Mutant of SubmitCommit: the Attempt row is committed without the
\* progress update.
SubmitCommit_attempt_only(r) ==
    /\ req[r].pc = "handle"
    /\ req[r].kind \in SubmitKinds
    /\ ChoiceValid(req[r].scenario_id, req[r].choice_index)
    /\ LET q == req[r] IN
         /\ attempts' = Append(attempts,
                               NewAttempt(q.pid, q.scenario_id, q.choice_index))
         /\ jar' = EnsureSessionCookie(q, progress[q.pid].session_id)
    /\ req' = [req EXCEPT ![r] = Idle]
    /\ UNCHANGED <<users, progress, nreq, uuids, tokens, scorevars, tokenvars>>

\* db.commit() raises (web.py 210, api.py 122): the one transaction holding
\* the UPDATE and the INSERT is rolled back, the exception leaves the
\* handler and no response cookie is set.
SubmitCommitFails(r) ==
    /\ req[r].pc = "handle"
    /\ req[r].kind \in SubmitKinds
    /\ ChoiceValid(req[r].scenario_id, req[r].choice_index)
    /\ req' = [req EXCEPT ![r] = Idle]
    /\ UNCHANGED <<dbvars, nreq, uuids, tokens, jar, scorevars, tokenvars>>

\* The accepted submission: the progress update and the Attempt insert in
\* one commit (web.py 195-220, api.py 104-135).
SubmitCommit(r) ==
    /\ req[r].pc = "handle"
    /\ req[r].kind \in SubmitKinds
    /\ ChoiceValid(req[r].scenario_id, req[r].choice_index)
    /\ LET q == req[r]
           choice == ChoiceOf(q.scenario_id, q.choice_index)
           new == IF q.kind = "train" THEN train_post_step(q.ld, choice)
                  ELSE submit_attempt_step(q.ld, choice)
       IN /\ progress' = [progress EXCEPT
                            ![q.pid] = Flush(progress[q.pid], q.ld, new)]
          /\ attempts' = Append(attempts,
                                NewAttempt(q.pid, q.scenario_id, q.choice_index))
          /\ jar' = EnsureSessionCookie(q, progress[q.pid].session_id)
    /\ req' = [req EXCEPT ![r] = Idle]
    /\ UNCHANGED <<users, nreq, uuids, tokens, scorevars, tokenvars>>

\* ------------------------------------------------------------ reset
\* The values reset_post assigns (web.py 310-313).
ResetValues ==
    [risk_score |-> INITIAL_RISK_SCORE, total_attempted |-> 0,
     correct_count |-> 0, current_streak |-> 0]

\* reset_post: DELETE the row's attempts, flush the assignments, commit.
ResetCommit(r) ==
    /\ req[r].pc = "handle"
    /\ req[r].kind = "reset"
    /\ LET q == req[r] IN
         /\ attempts' = SelectSeq(attempts,
                                  LAMBDA a : a.progress_id # q.pid)
         /\ progress' = [progress EXCEPT
                           ![q.pid] = Flush(progress[q.pid], q.ld, ResetValues)]
         /\ jar' = EnsureSessionCookie(q, progress[q.pid].session_id)
    /\ req' = [req EXCEPT ![r] = Idle]
    /\ UNCHANGED <<users, nreq, uuids, tokens, scorevars, tokenvars>>

\* ---------------------------------------------------------- register
EmailTaken(e) == \E i \in 1..Len(users) : users[i].email = e

\* POST /register up to the "user exists?" query (auth.py 130-147): a taken
\* email is answered with the redirect error=exists.
StartRegisterOf(r, budget, waits) ==
    /\ FreeSlot(r, budget)
    /\ \E sid \in SidsHeld, email \in RawEmails, link \in BOOLEAN :
         /\ waits => ClientIdle(sid, 0)
         /\ IF EmailTaken(_normalize_email(email))
            THEN UNCHANGED req
            ELSE req' = [req EXCEPT ![r] =
                           [Idle EXCEPT !.pc = "reg_insert",
                                        !.kind = "register", !.sid = sid,
                                        !.email = email, !.link = link]]
    /\ nreq' = nreq + 1
    /\ UNCHANGED <<dbvars, uuids, tokens, jar, scorevars, tokenvars>>

StartRegister(r) == StartRegisterOf(r, MaxRequests, FALSE)

\* The response of a completed registration: create_session_token(user.id)
\* set as the auth cookie (auth.py 165-176).
Registered(r, uid) ==
    /\ tokens' = tokens \cup {uid}
    /\ req' = [req EXCEPT ![r] = Idle]

\* db.add(user); db.commit(); db.refresh(user) (auth.py 150-153), then the
\* link_progress / cookie tests (auth.py 156-158).  ix_users_email is unique.
RegInsert(r) ==
    /\ req[r].pc = "reg_insert"
    /\ ~EmailTaken(_normalize_email(req[r].email))
    /\ users' = Append(users, [email |-> _normalize_email(req[r].email)])
    /\ LET uid == Len(users) + 1 IN
         IF req[r].link /\ req[r].sid # NoSid
         THEN /\ req' = [req EXCEPT ![r].pc = "reg_find", ![r].user = uid]
              /\ UNCHANGED tokens
         ELSE Registered(r, uid)
    /\ UNCHANGED <<progress, attempts, nreq, uuids, jar, scorevars, tokenvars>>

\* Mutant of RegInsertConflict: users.email has no unique index and the
\* insert succeeds.
RegInsert_without_unique_index(r) ==
    /\ req[r].pc = "reg_insert"
    /\ EmailTaken(_normalize_email(req[r].email))
    /\ users' = Append(users, [email |-> _normalize_email(req[r].email)])
    /\ Registered(r, Len(users) + 1)
    /\ UNCHANGED <<progress, attempts, nreq, uuids, jar, scorevars, tokenvars>>

\* The same insert when a concurrent registration has committed the email
\* since the query: IntegrityError, uncaught.
RegInsertConflict(r) ==
    /\ req[r].pc = "reg_insert"
    /\ EmailTaken(_normalize_email(req[r].email))
    /\ req' = [req EXCEPT ![r] = Idle]
    /\ UNCHANGED <<dbvars, nreq, uuids, tokens, jar, scorevars, tokenvars>>

\* Mutant of RegFind: with no row under the cookie, the oldest guest row
\* is taken.
RegFind_takes_a_row(r) ==
    /\ req[r].pc = "reg_find"
    /\ LET found == IF BySession(req[r].sid) # {} THEN BySession(req[r].sid)
                    ELSE { i \in RowIds : progress[i].user_id # req[r].user }
       IN IF found = {}
          THEN Registered(r, req[r].user)
          ELSE /\ \E i \in found :
                    req' = [req EXCEPT ![r].pc = "reg_link", ![r].pid = i]
               /\ UNCHANGED tokens
    /\ UNCHANGED <<dbvars, nreq, uuids, jar, scorevars, tokenvars>>

\* The query for the guest's progress row (auth.py 159-160).
RegFind(r) ==
    /\ req[r].pc = "reg_find"
    /\ IF BySession(req[r].sid) = {}
       THEN Registered(r, req[r].user)
       ELSE /\ \E i \in BySession(req[r].sid) :
                 req' = [req EXCEPT ![r].pc = "reg_link", ![r].pid = i]
            /\ UNCHANGED tokens
    /\ UNCHANGED <<dbvars, nreq, uuids, jar, scorevars, tokenvars>>

\* login_post (auth.py 74-98) with the account's password: the user row is
\* found by its normalized email and create_session_token(user.id) is set
\* as the auth cookie.  A failed login changes nothing.
Login(email) ==
    /\ \E i \in 1..Len(users) :
         /\ users[i].email = _normalize_email(email)
         /\ tokens' = tokens \cup {i}
    /\ UNCHANGED <<dbvars, req, nreq, uuids, jar, scorevars, tokenvars>>

\* Mutant of RegLink: the row keeps its session_id.
RegLink_keeps_session(r) ==
    /\ req[r].pc = "reg_link"
    /\ progress' = [progress EXCEPT ![req[r].pid].user_id = req[r].user]
    /\ Registered(r, req[r].user)
    /\ UNCHANGED <<users, attempts, nreq, uuids, jar, scorevars, tokenvars>>

\* progress.user_id = user.id; progress.session_id = None; db.commit()
\* (auth.py 161-163).
RegLink(r) ==
    /\ req[r].pc = "reg_link"
    /\ progress' = [progress EXCEPT ![req[r].pid].user_id = req[r].user,
                                    ![req[r].pid].session_id = NoSid]
    /\ Registered(r, req[r].user)
    /\ UNCHANGED <<users, attempts, nreq, uuids, jar, scorevars, tokenvars>>

\* ------------------------------------------------------ specification
\* The steps of a handler after its first storage operation.
Step(r) ==
    \/ InsertAccount(r)
    \/ InsertGuest(r)
    \/ InsertGuestConflict(r)
    \/ SubmitReject(r)
    \/ SubmitCommit(r)
    \/ SubmitCommitFails(r)
    \/ ResetCommit(r)
    \/ RegInsert(r)
    \/ RegInsertConflict(r)
    \/ RegFind(r)
    \/ RegLink(r)

\* Concurrent clients, any interleaving of the handlers' storage operations.
Next ==
    \E r \in Slots :
        \/ StartPlain(r)
        \/ StartSubmit(r)
        \/ StartRegister(r)
        \/ Step(r)
        \/ \E e \in RawEmails : Login(e)

Spec == Init /\ [][Next]_vars

\* The same system over one more request, for the interleavings that need
\* three requests on one row.
DeepStartPlain(r) == StartPlainOf(r, MaxRequests + 1, FALSE)
DeepStartSubmit(r) == StartSubmitOf(r, MaxRequests + 1, FALSE)
DeepStartRegister(r) == StartRegisterOf(r, MaxRequests + 1, FALSE)

DeepNext ==
    \E r \in Slots :
        \/ DeepStartPlain(r)
        \/ DeepStartSubmit(r)
        \/ DeepStartRegister(r)
        \/ Step(r)
        \/ \E e \in RawEmails : Login(e)

DeepSpec == Init /\ [][DeepNext]_vars

\* Clients that wait for each response before their next request (requests
\* of different clients still interleave).
SeqStartPlain(r) == StartPlainOf(r, MaxRequests, TRUE)
SeqStartSubmit(r) == StartSubmitOf(r, MaxRequests, TRUE)
SeqStartRegister(r) == StartRegisterOf(r, MaxRequests, TRUE)

\* No two requests with one guest cookie overlap, so InsertGuest never
\* meets a row committed since its query.
SeqStep(r) ==
    \/ InsertAccount(r)
    \/ InsertGuest(r)
    \/ SubmitReject(r)
    \/ SubmitCommit(r)
    \/ SubmitCommitFails(r)
    \/ ResetCommit(r)
    \/ RegInsert(r)
    \/ RegInsertConflict(r)
    \/ RegFind(r)
    \/ RegLink(r)

SeqNext ==
    \E r \in Slots :
        \/ SeqStartPlain(r)
        \/ SeqStartSubmit(r)
        \/ SeqStartRegister(r)
        \/ SeqStep(r)
        \/ \E e \in RawEmails : Login(e)

SeqSpec == Init /\ [][SeqNext]_vars

\* ------------------------------------------------ pure scoring checks
\* Inputs: every current in 0..100 with deltas of either sign, small and
\* huge; scores for compute_level in and just outside 0..100.
Deltas == (-MaxDelta..MaxDelta) \cup {-2000000000, -1000000, 1000000, 2000000000}

ScoreInit ==
    /\ StoreInit
    /\ TokenIdle
    /\ \/ score_in \in [current : MIN_SCORE..MAX_SCORE, delta : Deltas,
                        score : {INITIAL_RISK_SCORE}]
       \/ score_in \in [current : {INITIAL_RISK_SCORE}, delta : {0},
                        score : (MIN_SCORE - ScoreMargin)..(MAX_SCORE + ScoreMargin)]
    /\ score_out = [applied |-> << >>, level |-> << >>]

\* The results are kept as one-element sequences (empty: not yet called).
ApplyDelta ==
    /\ score_out.applied = << >>
    /\ score_out' = [score_out EXCEPT
                       !.applied = << apply_score_delta(score_in.current,
                                                        score_in.delta) >>]
    /\ UNCHANGED <<dbvars, reqvars, score_in, tokenvars>>

ComputeLevel ==
    /\ score_out.level = << >>
    /\ score_out' = [score_out EXCEPT
                       !.level = << compute_level(score_in.score) >>]
    /\ UNCHANGED <<dbvars, reqvars, score_in, tokenvars>>

ScoreNext == ApplyDelta \/ ComputeLevel

ScoreSpec == ScoreInit /\ [][ScoreNext]_vars

\* --------------------------------------------------------- security.py
\* Strings are sequences of one-character strings; bytes are their codes.
B64Chars ==
    << "A","B","C","D","E","F","G","H","I","J","K","L","M","N","O","P",
       "Q","R","S","T","U","V","W","X","Y","Z","a","b","c","d","e","f",
       "g","h","i","j","k","l","m","n","o","p","q","r","s","t","u","v",
       "w","x","y","z","0","1","2","3","4","5","6","7","8","9","-","_" >>

HexChars ==
    << "0","1","2","3","4","5","6","7","8","9","a","b","c","d","e","f" >>

\* str(n) for n >= 0, as ASCII codes.
RECURSIVE DecimalBytes(_)
DecimalBytes(n) ==
    IF n < 10 THEN << 48 + n >>
    ELSE Append(DecimalBytes(n \div 10), 48 + (n % 10))

\* f"{user_id}:{ts}".encode("utf-8")
PayloadBytes(user_id, ts) ==
    DecimalBytes(user_id) \o << 58 >> \o DecimalBytes(ts)

\* The 6-bit groups of base64, the last group zero-filled.
RECURSIVE Sextets(_)
Sextets(b) ==
    IF Len(b) = 0 THEN << >>
    ELSE IF Len(b) = 1 THEN << b[1] \div 4, (b[1] % 4) * 16 >>
    ELSE IF Len(b) = 2
         THEN << b[1] \div 4, (b[1] % 4) * 16 + b[2] \div 16, (b[2] % 16) * 4 >>
    ELSE << b[1] \div 4, (b[1] % 4) * 16 + b[2] \div 16,
            (b[2] % 16) * 4 + b[3] \div 64, b[3] % 64 >>
         \o Sextets(SubSeq(b, 4, Len(b)))

\* base64.urlsafe_b64encode(payload).decode("ascii").rstrip("=")
B64Encode(b) == LET sx == Sextets(b) IN [i \in 1..Len(sx) |-> B64Chars[sx[i] + 1]]

\* hmac.new(secret_key, payload, sha256).hexdigest(): a lowercase hex string
\* fixed by the key and the payload.  Idealised as collision free: the hex
\* of the payload bytes stands for the digest of that payload.
HexDigest(b) ==
    [i \in 1..(2 * Len(b)) |->
        IF i % 2 = 1 THEN HexChars[(b[(i + 1) \div 2] \div 16) + 1]
        ELSE HexChars[(b[i \div 2] % 16) + 1]]

\* _sign_payload: the unpadded base64 of the payload, ".", the hex digest.
_sign_payload(payload) == B64Encode(payload) \o << "." >> \o HexDigest(payload)

\* A character outside ASCII (one stands for all of them).
NonAsciiChar == "U+00E9"
IsAscii(ch) == ch # NonAsciiChar

\* hmac.compare_digest(expected, sig) of two str raises TypeError when one
\* of them holds a non-ASCII character.
compare_digest_raises(sig) == \E i \in 1..Len(sig) : ~IsAscii(sig[i])

\* _verify_sig: hmac.compare_digest(expected, sig).
_verify_sig(payload, sig) == HexDigest(payload) = sig

\* int(time.time()) at clock tick `tick`.
UnixTime(tick) == tick \div TicksPerSecond

\* create_session_token, called at clock tick `tick`.
create_session_token(user_id, tick) ==
    _sign_payload(PayloadBytes(user_id, UnixTime(tick)))

\* 14 * 24 * 3600 seconds.
MAX_AGE == 14 * 24 * 3600

B64Index(ch) == (CHOOSE i \in 1..64 : B64Chars[i] = ch) - 1
IsB64(ch) == \E i \in 1..64 : B64Chars[i] = ch

\* The bytes of whole and trailing 6-bit groups (bits left over dropped).
RECURSIVE SextetBytes(_)
SextetBytes(x) ==
    IF Len(x) < 2 THEN << >>
    ELSE IF Len(x) = 2 THEN << x[1] * 4 + x[2] \div 16 >>
    ELSE IF Len(x) = 3
         THEN << x[1] * 4 + x[2] \div 16, (x[2] % 16) * 16 + x[3] \div 4 >>
    ELSE << x[1] * 4 + x[2] \div 16, (x[2] % 16) * 16 + x[3] \div 4,
            (x[3] % 4) * 64 + x[4] >>
         \o SextetBytes(SubSeq(x, 5, Len(x)))

\* base64.urlsafe_b64decode of `encoded` followed by `pads` "=" characters
\* (binascii.a2b_base64, not strict): a non-ASCII character raises
\* ValueError; other characters outside the alphabet are skipped; a lone
\* trailing data character, or a trailing group with too little padding,
\* raises binascii.Error (a ValueError).
B64Decode(encoded, pads) ==
    LET data == SelectSeq(encoded, IsB64)
        tail == Len(data) % 4
        ok == /\ \A i \in 1..Len(encoded) : IsAscii(encoded[i])
              /\ CASE tail = 0 -> TRUE
                   [] tail = 1 -> FALSE
                   [] tail = 2 -> pads >= 2
                   [] tail = 3 -> pads >= 1
    IN  [ok |-> ok,
         bytes |-> IF ok
                   THEN SextetBytes([i \in 1..Len(data) |-> B64Index(data[i])])
                   ELSE << >>]

\* int(text) of ASCII codes: decimal digits only here (ValueError otherwise).
RECURSIVE DecimalValue(_)
DecimalValue(b) ==
    IF Len(b) = 0 THEN 0
    ELSE 10 * DecimalValue(SubSeq(b, 1, Len(b) - 1)) + (b[Len(b)] - 48)

ParseInt(b) ==
    IF Len(b) > 0 /\ \A i \in 1..Len(b) : b[i] \in 48..57
    THEN [ok |-> TRUE, value |-> DecimalValue(b)]
    ELSE [ok |-> FALSE, value |-> 0]

\* The outcomes of verify_session_token: None, and an exception that the
\* except clause (ValueError, IndexError) does not catch.
Invalid == [ok |-> FALSE, user_id |-> 0, raised |-> FALSE]
Raised == [ok |-> FALSE, user_id |-> 0, raised |-> TRUE]

Abs(x) == IF x < 0 THEN -x ELSE x

\* Mutant of Expired: the token already expires at exactly 14 days.
Expired_at_the_limit(tick, ts) ==
    Abs(tick - ts * TicksPerSecond) >= MAX_AGE * TicksPerSecond

\* abs(time.time() - ts) > 14 * 24 * 3600
Expired(tick, ts) ==
    Abs(tick - ts * TicksPerSecond) > MAX_AGE * TicksPerSecond

\* verify_session_token at clock tick `tick`: the user id, None, or an
\* uncaught exception.
verify_session_token(token, tick) ==
    IF Len(token) = 0 \/ ~(\E i \in 1..Len(token) : token[i] = ".")
    THEN Invalid
    ELSE
      LET dot == CHOOSE i \in 1..Len(token) :
                     /\ token[i] = "."
                     /\ \A j \in (i + 1)..Len(token) : token[j] # "."
          encoded == SubSeq(token, 1, dot - 1)
          sig == SubSeq(token, dot + 1, Len(token))
          pad == 4 - (Len(encoded) % 4)
          dec == B64Decode(encoded, IF pad # 4 THEN pad ELSE 0)
          payload == dec.bytes
          colons == { i \in 1..Len(payload) : payload[i] = 58 }
          colon == CHOOSE i \in colons : \A j \in colons : i <= j
          user_id == ParseInt(SubSeq(payload, 1, colon - 1))
          ts == ParseInt(SubSeq(payload, colon + 1, Len(payload)))
      IN  IF ~dec.ok THEN Invalid
          ELSE IF compare_digest_raises(sig) THEN Raised
          ELSE IF ~_verify_sig(payload, sig) THEN Invalid
          ELSE IF colons = {} THEN Invalid
          ELSE IF ~user_id.ok \/ ~ts.ok THEN Invalid
          ELSE IF Expired(tick, ts.value) THEN Invalid
          ELSE [ok |-> TRUE, user_id |-> user_id.value, raised |-> FALSE]

\* ----------------------------------------------------- token checks
\* User ids tokens are issued for.
TokenUids == {1, 42}

\* The clock runs from the issue window to the end of the 14-day window of
\* the tokens issued in it, and a little past it.
WindowTicks == MAX_AGE * TicksPerSecond
LateFrom == WindowTicks - TicksPerSecond
LateTo == WindowTicks + MaxIssueTick + MaxOverrun * TicksPerSecond

TokenInit ==
    /\ StoreInit
    /\ ScoreIdle
    /\ now \in 0..MaxIssueTick
    /\ minted = {}
    /\ verdict = [called |-> FALSE]
    /\ ProbeIdle

\* create_session_token(u) now.
Issue(u) ==
    /\ minted = {}
    /\ now <= MaxIssueTick
    /\ minted' = {[user_id |-> u, at |-> now,
                   token |-> create_session_token(u, now)]}
    /\ UNCHANGED <<dbvars, reqvars, scorevars, probevars, now, verdict>>

\* Time passes: a tick, or up to the last second of the window.
Tick ==
    /\ \/ now < MaxIssueTick
       \/ now >= LateFrom /\ now < LateTo
    /\ now' = now + 1
    /\ UNCHANGED <<dbvars, reqvars, scorevars, probevars, minted, verdict>>

Leap ==
    /\ minted # {}
    /\ now <= MaxIssueTick
    /\ now' = now + LateFrom
    /\ UNCHANGED <<dbvars, reqvars, scorevars, probevars, minted, verdict>>

\* verify_session_token(token) now, for an issued token.
Verify(m) ==
    /\ verdict' = [called |-> TRUE, user_id |-> m.user_id, at |-> m.at,
                   when |-> now,
                   result |-> verify_session_token(m.token, now)]
    /\ UNCHANGED <<dbvars, reqvars, scorevars, probevars, now, minted>>

TokenNext ==
    \/ \E u \in TokenUids : Issue(u)
    \/ Tick
    \/ Leap
    \/ \E m \in minted : Verify(m)

TokenSpec == TokenInit /\ [][TokenNext]_vars

\* ------------------------------------------------- altered tokens
\* The characters a token character is replaced by: base64 characters, hex
\* digits, the separator, an ASCII character of neither alphabet, and a
\* non-ASCII character.
TamperChars == {"A", "B", "R", "0", "f", ".", "!", NonAsciiChar}

\* verify_session_token now, on an issued token with character i replaced
\* by ch (one call in a behaviour).
VerifyAltered(m, i, ch) ==
    /\ ~forged.called
    /\ ch # m.token[i]
    /\ forged' = [called |-> TRUE, user_id |-> m.user_id, at |-> m.at,
                  when |-> now, pos |-> i, original |-> m.token,
                  token |-> [m.token EXCEPT ![i] = ch],
                  result |-> verify_session_token(
                                 [m.token EXCEPT ![i] = ch], now)]
    /\ UNCHANGED <<dbvars, reqvars, scorevars, now, minted, verdict, resolved>>

TamperNext ==
    \/ \E u \in TokenUids : Issue(u)
    \/ \E m \in minted : \E i \in 1..Len(m.token) : \E ch \in TamperChars :
           VerifyAltered(m, i, ch)

TamperSpec == TokenInit /\ [][TamperNext]_vars

\* ---------------------------------------------- identity resolution
\* web.get_current_user_optional on an auth-cookie value (<< >>: no cookie)
\* at clock tick `tick`: the id of the user row found, 0 for None, or the
\* exception verify_session_token lets through.
get_current_user_optional(token, tick) ==
    IF token = << >> THEN [raised |-> FALSE, user_id |-> 0]
    ELSE LET v == verify_session_token(token, tick) IN
         IF v.raised THEN [raised |-> TRUE, user_id |-> 0]
         ELSE IF ~v.ok THEN [raised |-> FALSE, user_id |-> 0]
         ELSE IF v.user_id \in 1..Len(users)
              THEN [raised |-> FALSE, user_id |-> v.user_id]
              ELSE [raised |-> FALSE, user_id |-> 0]

\* Mutant of get_or_create_session_id: a new id whatever the cookie.
get_or_create_session_id_always_new(cookie, fresh) == fresh

\* get_or_create_session_id: the guest cookie, or str(uuid.uuid4()).
get_or_create_session_id(cookie, fresh) ==
    IF cookie = NoSid THEN fresh ELSE cookie

\* The identity web.get_or_create_progress works for (web.py 66, 81): the
\* current user when there is one, else the guest of the session id.
ResolveIdentity(auth_cookie, guest_cookie, tick, fresh) ==
    LET cu == get_current_user_optional(auth_cookie, tick) IN
    IF cu.raised THEN [raised |-> TRUE, identity |-> << >>]
    ELSE IF cu.user_id # 0
         THEN [raised |-> FALSE, identity |-> <<"account", cu.user_id>>]
         ELSE [raised |-> FALSE,
               identity |-> <<"guest",
                              get_or_create_session_id(guest_cookie, fresh)>>]

\* Auth-cookie values: none, an issued token, an issued token with its tag
\* changed (to a hex digit, to a non-ASCII character), text that is no
\* token, and a tagged payload that is no "user_id:timestamp".
WrongTag(t) == [t EXCEPT ![Len(t)] = IF t[Len(t)] = "f" THEN "0" ELSE "f"]
NonAsciiTag(t) == [t EXCEPT ![Len(t)] = NonAsciiChar]
AuthCookies ==
    { << >>, << "!" >>, _sign_payload(<< 120 >>) }
        \cup { m.token : m \in minted }
        \cup { WrongTag(m.token) : m \in minted }
        \cup { NonAsciiTag(m.token) : m \in minted }

\* One account exists; tokens are issued for it and for an id no account has.
ResolveInit ==
    /\ users = << [email |-> << "a" >>] >>
    /\ progress = <<>>
    /\ attempts = <<>>
    /\ req = [r \in Slots |-> Idle]
    /\ nreq = 0
    /\ uuids = 0
    /\ tokens = {}
    /\ jar = {}
    /\ ScoreIdle
    /\ now \in 0..MaxIssueTick
    /\ minted = {}
    /\ verdict = [called |-> FALSE]
    /\ ProbeIdle

\* The issued token's 14 days pass.
Expire ==
    /\ minted # {}
    /\ now <= MaxIssueTick
    /\ now' = now + WindowTicks + TicksPerSecond
    /\ UNCHANGED <<dbvars, reqvars, scorevars, probevars, minted, verdict>>

ResolutionOf(auth_cookie, guest_cookie) ==
    LET res == ResolveIdentity(auth_cookie, guest_cookie, now, Uuid(uuids + 1))
        fresh == res.identity = <<"guest", Uuid(uuids + 1)>>
    IN  /\ resolved' = Append(resolved,
                          [auth |-> auth_cookie, guest |-> guest_cookie,
                           when |-> now, raised |-> res.raised,
                           identity |-> res.identity])
        /\ uuids' = IF fresh THEN uuids + 1 ELSE uuids
        /\ UNCHANGED <<dbvars, req, nreq, tokens, jar, scorevars, now, minted,
                       verdict, forged>>

\* A request's identity is resolved from its two cookies.
Resolve(auth_cookie, guest_cookie) ==
    /\ resolved = << >>
    /\ ResolutionOf(auth_cookie, guest_cookie)

\* A second request with the same two cookie values.
ResolveAgain ==
    /\ Len(resolved) = 1
    /\ ResolutionOf(resolved[1].auth, resolved[1].guest)

ResolveNext ==
    \/ \E u \in TokenUids : Issue(u)
    \/ Expire
    \/ \E a \in AuthCookies : \E g \in {NoSid} \cup ClientSids : Resolve(a, g)
    \/ ResolveAgain

ResolveSpec == ResolveInit /\ [][ResolveNext]_vars

\* ------------------------------------------------------- achievements
\* Mutant of _max_consecutive_safe: the run counter is not reset by an
\* unsafe attempt.
RECURSIVE RunScan_no_reset(_, _, _, _)
RunScan_no_reset(atts, k, current, max_streak) ==
    IF k > Len(atts) THEN max_streak
    ELSE IF atts[k].is_safe
         THEN RunScan_no_reset(atts, k + 1, current + 1,
                               IF current + 1 > max_streak THEN current + 1
                               ELSE max_streak)
         ELSE RunScan_no_reset(atts, k + 1, current, max_streak)

\* The loop of _max_consecutive_safe from attempt k on, with its two
\* locals (scoring.py 106-113).
RECURSIVE RunScan(_, _, _, _)
RunScan(atts, k, current, max_streak) ==
    IF k > Len(atts) THEN max_streak
    ELSE IF atts[k].is_safe
         THEN RunScan(atts, k + 1, current + 1,
                      IF current + 1 > max_streak THEN current + 1
                      ELSE max_streak)
         ELSE RunScan(atts, k + 1, 0, max_streak)

_max_consecutive_safe_no_reset(atts) == RunScan_no_reset(atts, 1, 0, 0)

_max_consecutive_safe(atts) == RunScan(atts, 1, 0, 0)

\* Mutant of _urgency_safe_count: unsafe Urgency attempts count too.
_urgency_safe_count_any_outcome(atts) ==
    Cardinality({ k \in 1..Len(atts) : atts[k].tactic = "Urgency" })

\* sum(1 for a in attempts if a.tactic == "Urgency" and a.is_safe).
_urgency_safe_count(atts) ==
    Cardinality({ k \in 1..Len(atts) :
                    atts[k].tactic = "Urgency" /\ atts[k].is_safe })

\* Mutant of compute_achievements: phishing_detector counts the safe
\* attempts of the history instead of reading correct_count.
compute_achievements_from_history(p, atts) ==
    << [id |-> "no_click_hero",
        unlocked |-> _max_consecutive_safe(atts) >= 3],
       [id |-> "phishing_detector",
        unlocked |-> Cardinality({ k \in 1..Len(atts) : atts[k].is_safe }) >= 5],
       [id |-> "calm_under_pressure",
        unlocked |-> _urgency_safe_count(atts) >= 2] >>

\* compute_achievements: the three achievements in the order of the result
\* list, each with its unlocked flag.
compute_achievements(p, atts) ==
    << [id |-> "no_click_hero",
        unlocked |-> _max_consecutive_safe(atts) >= 3],
       [id |-> "phishing_detector",
        unlocked |-> p.correct_count >= 5],
       [id |-> "calm_under_pressure",
        unlocked |-> _urgency_safe_count(atts) >= 2] >>

\* The is_safe and tactic columns of an Attempt row, which are all that the
\* achievement functions read.
AttemptOutcomes ==
    [is_safe : BOOLEAN, tactic : { Scenarios[s].tactic : s \in 1..Len(Scenarios) }]

\* Attempt histories in chronological order, up to MaxHistory attempts.
Histories == UNION { [1..n -> AttemptOutcomes] : n \in 0..MaxHistory }

\* A Progress row's correct_count and an attempt history; the counter is a
\* stored column and is drawn independently of the history.
AchievementInit ==
    /\ StoreInit
    /\ TokenIdle
    /\ score_in \in [correct_count : 0..MaxCorrect, attempts : Histories]
    /\ score_out = [achievements |-> << >>]

ComputeAchievements ==
    /\ score_out.achievements = << >>
    /\ score_out' = [achievements |->
                       compute_achievements(score_in, score_in.attempts)]
    /\ UNCHANGED <<dbvars, reqvars, score_in, tokenvars>>

AchievementSpec == AchievementInit /\ [][ComputeAchievements]_vars

\* ------------------------------------------- the two entry points
\* One Progress state, scenario and choice index given to POST /train and
\* to POST /api/attempts: what each handler stores, the counters of the row
\* and the Attempt row.
EntryInit ==
    /\ StoreInit
    /\ TokenIdle
    /\ \E inp \in { i \in SubmitInputs : ChoiceValid(i[1], i[2]) } :
         score_in \in [ld : [risk_score : MIN_SCORE..MAX_SCORE,
                             total_attempted : 0..MaxCounter,
                             correct_count : 0..MaxCounter,
                             current_streak : 0..MaxCounter],
                       pid : {1},
                       scenario_id : {inp[1]},
                       choice_index : {inp[2]}]
    /\ score_out = [train |-> << >>, attempt |-> << >>]

\* train_post on the input (web.py 191-210).
ViaTrainPost ==
    /\ score_out.train = << >>
    /\ LET q == score_in
           choice == ChoiceOf(q.scenario_id, q.choice_index)
       IN score_out' = [score_out EXCEPT !.train =
              << [progress |-> Flush(q.ld, q.ld, train_post_step(q.ld, choice)),
                  attempt |-> NewAttempt(q.pid, q.scenario_id, q.choice_index)] >>]
    /\ UNCHANGED <<dbvars, reqvars, score_in, tokenvars>>

\* submit_attempt on the input (api.py 100-123).
ViaSubmitAttempt ==
    /\ score_out.attempt = << >>
    /\ LET q == score_in
           choice == ChoiceOf(q.scenario_id, q.choice_index)
       IN score_out' = [score_out EXCEPT !.attempt =
              << [progress |-> Flush(q.ld, q.ld, submit_attempt_step(q.ld, choice)),
                  attempt |-> NewAttempt(q.pid, q.scenario_id, q.choice_index)] >>]
    /\ UNCHANGED <<dbvars, reqvars, score_in, tokenvars>>

EntryNext == ViaTrainPost \/ ViaSubmitAttempt

EntrySpec == EntryInit /\ [][EntryNext]_vars

\* --------------------------------------------------------------- tips
\* The keys of TACTIC_TIPS in the order of the dict literal (scoring.py
\* 38-44); result_get and get_stats list all_tactics in the same order.
TACTIC_TIPS ==
    << "Urgency", "Authority", "Scarcity", "Reciprocity", "Fear" >>

\* sorted(breakdown, key=lambda x: x.mistake_count, reverse=True): the sort
\* is stable, entries with equal counts keep the order of the list.
SortedByMistakes(breakdown) ==
    LET n == Len(breakdown)
        rank(i) == 1 + Cardinality({ j \in 1..n :
                         \/ breakdown[j].mistake_count > breakdown[i].mistake_count
                         \/ /\ breakdown[j].mistake_count = breakdown[i].mistake_count
                            /\ j < i })
    IN  [k \in 1..n |-> breakdown[CHOOSE i \in 1..n : rank(i) = k]]

\* The first loop from entry k on (scoring.py 75-86); a tip is modelled by
\* the tactic it is for.
RECURSIVE WeakTips(_, _, _, _, _)
WeakTips(sorted_tactics, k, tips, seen, max_tips) ==
    IF k > Len(sorted_tactics) THEN [tips |-> tips, seen |-> seen]
    ELSE LET t == sorted_tactics[k] IN
         IF t.mistake_count <= 0
         THEN WeakTips(sorted_tactics, k + 1, tips, seen, max_tips)
         ELSE IF t.tactic \in seen
         THEN WeakTips(sorted_tactics, k + 1, tips, seen, max_tips)
         ELSE LET tips2 == Append(tips, t.tactic)
                  seen2 == seen \cup {t.tactic}
              IN  IF Len(tips2) >= max_tips
                  THEN [tips |-> tips2, seen |-> seen2]
                  ELSE WeakTips(sorted_tactics, k + 1, tips2, seen2, max_tips)

\* The second loop from key k of TACTIC_TIPS on (scoring.py 87-92).
RECURSIVE PadTips(_, _, _, _)
PadTips(k, tips, seen, max_tips) ==
    IF k > Len(TACTIC_TIPS) THEN tips
    ELSE IF Len(tips) >= max_tips THEN tips
    ELSE IF TACTIC_TIPS[k] \notin seen
         THEN PadTips(k + 1, Append(tips, TACTIC_TIPS[k]),
                      seen \cup {TACTIC_TIPS[k]}, max_tips)
         ELSE PadTips(k + 1, tips, seen, max_tips)

\* Mutant of get_tips_for_weak_tactics: no padding with zero-mistake
\* tactics.
get_tips_for_weak_tactics_no_padding(breakdown, max_tips) ==
    LET weak == WeakTips(SortedByMistakes(breakdown), 1, << >>, {}, max_tips)
    IN  SubSeq(weak.tips, 1,
               IF max_tips < Len(weak.tips) THEN max_tips ELSE Len(weak.tips))

\* get_tips_for_weak_tactics; the last line is tips[:max_tips].
get_tips_for_weak_tactics(breakdown, max_tips) ==
    LET weak == WeakTips(SortedByMistakes(breakdown), 1, << >>, {}, max_tips)
        tips == PadTips(1, weak.tips, weak.seen, max_tips)
    IN  SubSeq(tips, 1, IF max_tips < Len(tips) THEN max_tips ELSE Len(tips))

\* The orders in which the five tactics can be listed.
Listings ==
    { f \in [1..Len(TACTIC_TIPS) -> 1..Len(TACTIC_TIPS)] :
        \A a, b \in 1..Len(TACTIC_TIPS) : a # b => f[a] # f[b] }

\* A breakdown: every tactic once, in some order, with a mistake count.
TipsInit ==
    /\ StoreInit
    /\ TokenIdle
    /\ \E f \in Listings :
       \E c \in [1..Len(TACTIC_TIPS) -> 0..MaxMistakes] :
       \E m \in 0..MaxTips :
          score_in = [breakdown |->
                         [k \in 1..Len(TACTIC_TIPS) |->
                             [tactic |-> TACTIC_TIPS[f[k]],
                              mistake_count |-> c[f[k]]]],
                      max_tips |-> m]
    /\ score_out = [called |-> FALSE, tips |-> << >>]

GetTips ==
    /\ ~score_out.called
    /\ score_out' = [called |-> TRUE,
                     tips |-> get_tips_for_weak_tactics(score_in.breakdown,
                                                        score_in.max_tips)]
    /\ UNCHANGED <<dbvars, reqvars, score_in, tokenvars>>

TipsSpec == TipsInit /\ [][GetTips]_vars

\* A store that already holds the row of a guest who, with the cookie
\* <<"cookie", 1>>, answered scenario 1 safely three times, one request
\* after the other: get_or_create_progress inserted the row and three
\* accepted submissions each added -5, one attempt and one to the counters.
ReturningGuestRow ==
    [session_id |-> <<"cookie", 1>>, user_id |-> 0,
     risk_score |-> INITIAL_RISK_SCORE - 15, total_attempted |-> 3,
     correct_count |-> 3, current_streak |-> 3]

ReturningInit ==
    /\ users = <<>>
    /\ progress = << ReturningGuestRow >>
    /\ attempts = [k \in 1..3 |-> NewAttempt(1, 1, 0)]
    /\ req = [r \in Slots |-> Idle]
    /\ nreq = 0
    /\ uuids = 0
    /\ tokens = {}
    /\ jar = {}
    /\ ScoreIdle
    /\ TokenIdle

\* The system started either empty or with the returning guest's row, over
\* the requests of DeepSpec.
ReturningSpec == (Init \/ ReturningInit) /\ [][DeepNext]_vars

\* =============================================================== claims
AttemptsOf(i) == SelectSeq(attempts, LAMBDA a : a.progress_id = i)

\* The attempt step as the specification words it.
Clamp0To100(x) == IF x < 0 THEN 0 ELSE IF x > 100 THEN 100 ELSE x

RecordAttempt(p, is_safe, score_delta) ==
    [risk_score      |-> Clamp0To100(p.risk_score + score_delta),
     total_attempted |-> p.total_attempted + 1,
     correct_count   |-> p.correct_count + (IF is_safe THEN 1 ELSE 0),
     current_streak  |-> IF is_safe THEN p.current_streak + 1 ELSE 0]

\* The handler in slot r commits an accepted submission in this step.
CommitsSubmission(r) ==
    /\ req[r].pc = "handle"
    /\ req[r].kind \in SubmitKinds
    /\ ChoiceValid(req[r].scenario_id, req[r].choice_index)
    /\ req'[r].pc = "idle"

\* The handler in slot r commits a reset of row i in this step.
CommitsResetOf(r, i) ==
    /\ req[r].pc = "handle"
    /\ req[r].kind = "reset"
    /\ req[r].pid = i
    /\ req'[r].pc = "idle"

\* C1: in every reachable state every Progress row has exactly one of
\* session_id and user_id non-null (never both, never neither).
C1_ExactlyOneOwner ==
    \A i \in RowIds :
        (progress[i].session_id # NoSid) # (progress[i].user_id # 0)

\* A row born under a generated guest session id is now owned by an account
\* (registration with the link option re-keyed it).
C1_Witness ==
    \E i \in RowIds :
        /\ uuids >= 1
        /\ progress[i].user_id # 0
        /\ progress[i].session_id = NoSid

\* C2: concurrent get_or_create calls for one never-seen identity leave at
\* most one Progress row owned by that identity (stated as the original
\* claim; two requests of one account each insert a row).
C2_OneRowPerIdentity ==
    \A i, j \in RowIds :
        i # j =>
            /\ ~(progress[i].session_id # NoSid
                 /\ progress[i].session_id = progress[j].session_id)
            /\ ~(progress[i].user_id # 0
                 /\ progress[i].user_id = progress[j].user_id)

\* C3: every Progress row has risk_score in 0..100 in every reachable state,
\* and a row is created with risk_score 50.
C3_RiskScoreInRange ==
    /\ [](\A i \in RowIds : progress[i].risk_score \in 0..100)
    /\ [][\A i \in 1..Len(progress') :
              i > Len(progress) => progress'[i].risk_score = 50]_vars

\* An accepted submission has saturated a row at 100 (50 + 60 clamped).
C3_Witness ==
    \E i \in RowIds :
        /\ progress[i].risk_score = 100
        /\ \E k \in 1..Len(attempts) :
             /\ attempts[k].progress_id = i
             /\ ChoiceOf(attempts[k].scenario_id,
                         attempts[k].choice_index).score_delta = 60

\* C4: every accepted submission changes its Progress row by exactly the
\* attempt step (stated as the original claim; a submission that commits
\* after another one it did not see leaves total_attempted unchanged).
C4_ExactStepOnRow ==
    [][\A r \in Slots :
          CommitsSubmission(r) =>
              LET c == ChoiceOf(req[r].scenario_id, req[r].choice_index) IN
                Loaded(progress'[req[r].pid])
                    = RecordAttempt(Loaded(progress[req[r].pid]),
                                    c.is_safe, c.score_delta)]_vars

\* The fold of the attempt step over a row's attempts, from the fresh
\* record (50, 0, 0, 0).
RECURSIVE FoldAttempts(_)
FoldAttempts(as) ==
    IF as = << >>
    THEN [risk_score |-> 50, total_attempted |-> 0, correct_count |-> 0,
          current_streak |-> 0]
    ELSE LET last == as[Len(as)]
             c == ChoiceOf(last.scenario_id, last.choice_index)
         IN  RecordAttempt(FoldAttempts(SubSeq(as, 1, Len(as) - 1)),
                           c.is_safe, c.score_delta)

\* C5: when each client waits for the response before its next request,
\* every Progress row equals the left-to-right fold of the attempt step over
\* the submissions recorded for it since it was created or reset.
C5_SequentialFold ==
    \A i \in RowIds : Loaded(progress[i]) = FoldAttempts(AttemptsOf(i))

\* Unsafe +10 then safe -5 on a fresh row: 55, streak 1, 2 attempted,
\* 1 correct.
C5_Witness ==
    \E i \in RowIds :
        /\ Len(AttemptsOf(i)) = 2
        /\ AttemptsOf(i)[1].scenario_id = 1 /\ AttemptsOf(i)[1].choice_index = 1
        /\ AttemptsOf(i)[2].scenario_id = 1 /\ AttemptsOf(i)[2].choice_index = 0
        /\ Loaded(progress[i]) =
             [risk_score |-> 55, total_attempted |-> 2, correct_count |-> 1,
              current_streak |-> 1]

\* C6: 0 <= correct_count <= total_attempted for every Progress row in every
\* reachable state (stated as the original claim; an unsafe submission's
\* flush writes total_attempted from its stale load and leaves the
\* correct_count others have committed).
C6_CorrectAtMostTotal ==
    \A i \in RowIds :
        /\ 0 <= progress[i].correct_count
        /\ progress[i].correct_count <= progress[i].total_attempted

\* C7: total_attempted of a row never decreases from one committed state to
\* the next except by that row's reset (stated as the original claim; a
\* submission that commits after two it did not see writes a smaller total).
C7_TotalNeverDecreases ==
    [][\A i \in RowIds :
          \/ progress'[i].total_attempted >= progress[i].total_attempted
          \/ \E r \in Slots : CommitsResetOf(r, i)]_vars

\* C8: for current in 0..100 and any integer delta, apply_score_delta is in
\* 0..100, equals current + delta when that is in 0..100, 0 when it is
\* below 0 and 100 when it is above 100.
C8_ApplySaturates ==
    score_out.applied # << >> =>
        LET sum == score_in.current + score_in.delta
            out == score_out.applied[1]
        IN  /\ out \in 0..100
            /\ (sum \in 0..100 => out = sum)
            /\ (sum < 0 => out = 0)
            /\ (sum > 100 => out = 100)

\* A huge negative delta has been applied and gave 0.
C8_Witness ==
    /\ score_in.delta = -2000000000
    /\ score_in.current = 100
    /\ score_out.applied = << 0 >>

\* The label the specification gives a score in 0..100.
BandLabel(x) ==
    CASE x \in 0..20   -> "Security Ninja"
      [] x \in 21..40  -> "Aware User"
      [] x \in 41..60  -> "Rookie"
      [] x \in 61..80  -> "At Risk"
      [] x \in 81..100 -> "High Risk"

\* C9: compute_level maps every score in 0..100 to the label of its band,
\* never through the fallback, and exactly one band holds each such score.
C9_LevelBands ==
    /\ \A x \in 0..100 :
         Cardinality({ i \in 1..Len(LEVEL_BANDS) :
                         LEVEL_BANDS[i].low <= x /\ x <= LEVEL_BANDS[i].high }) = 1
    /\ (score_out.level # << >> /\ score_in.score \in 0..100) =>
         /\ score_out.level[1].label = BandLabel(score_in.score)
         /\ ~score_out.level[1].fallback

\* The first score of the second band has been classified.
C9_Witness ==
    /\ score_in.score = 21
    /\ score_out.level = << [label |-> "Aware User", fallback |-> FALSE] >>

\* C10 as stated, with t the instant create_session_token is called:
\* verify gives u whenever 0 <= now - t <= 14 days and None whenever
\* now - t > 14 days.
C10_WindowFromIssueInstant ==
    verdict.called =>
        LET age == verdict.when - verdict.at
            fourteen_days == 14 * 24 * 3600 * TicksPerSecond
        IN  /\ (0 <= age /\ age <= fourteen_days =>
                   verdict.result = [ok |-> TRUE, user_id |-> verdict.user_id,
                                     raised |-> FALSE])
            /\ (age > fourteen_days =>
                   verdict.result = [ok |-> FALSE, user_id |-> 0,
                                     raised |-> FALSE])

\* C10: a token issued for u verifies to u at every clock value now with
\* 0 <= now - t <= 14 days and to None at every now with now - t > 14 days,
\* where t is the whole-second unix time create_session_token wrote into
\* the token (the call instant rounded down).
C10_WindowFromTimestamp ==
    verdict.called =>
        LET age == verdict.when - UnixTime(verdict.at) * TicksPerSecond
            fourteen_days == 14 * 24 * 3600 * TicksPerSecond
        IN  /\ age >= 0
            /\ (age <= fourteen_days =>
                   verdict.result = [ok |-> TRUE, user_id |-> verdict.user_id,
                                     raised |-> FALSE])
            /\ (age > fourteen_days =>
                   verdict.result = [ok |-> FALSE, user_id |-> 0,
                                     raised |-> FALSE])

\* A token for user 42, issued part-way through a second, has been verified
\* exactly 14 days after its timestamp and accepted.
C10_Witness ==
    /\ verdict.called
    /\ verdict.user_id = 42
    /\ verdict.at % TicksPerSecond # 0
    /\ verdict.when - UnixTime(verdict.at) * TicksPerSecond
           = 14 * 24 * 3600 * TicksPerSecond
    /\ verdict.result = [ok |-> TRUE, user_id |-> 42, raised |-> FALSE]

\* C11: replacing any single character of an issued token by a different
\* character makes verify_session_token return invalid (stated as the
\* original claim; a last base64 character that differs only in the bits
\* the decoder drops still verifies, and a non-ASCII character in the tag
\* makes the comparison raise).
C11_AlteredTokenInvalid ==
    forged.called =>
        forged.result = [ok |-> FALSE, user_id |-> 0, raised |-> FALSE]

\* The auth cookie is an issued token, unaltered and unexpired, of a user
\* that exists.
NamesAccount(auth_cookie, tick) ==
    \E m \in minted :
        /\ auth_cookie = m.token
        /\ tick - UnixTime(m.at) * TicksPerSecond
               <= 14 * 24 * 3600 * TicksPerSecond
        /\ m.user_id \in 1..Len(users)

\* C12: identity resolution never raises; it gives Account{user_id} only
\* for a token that verifies, is unexpired and names an existing account,
\* and otherwise the guest of the guest cookie (stated as the original
\* claim; a tag with a non-ASCII character makes the resolution raise).
C12_ResolutionNeverRaises ==
    \A k \in 1..Len(resolved) :
        LET r == resolved[k] IN
        /\ ~r.raised
        /\ r.identity[1] = "account" <=> NamesAccount(r.auth, r.when)
        /\ r.identity[1] = "account" =>
               \E m \in minted : r.auth = m.token /\ r.identity[2] = m.user_id
        /\ (r.identity[1] = "guest" /\ r.guest # NoSid) =>
               r.identity[2] = r.guest

\* C13 as stated: two resolutions with the same auth-cookie and guest-cookie
\* values (each possibly absent) and the same accounts yield the same
\* Identity.
C13_SameIdentityTwice ==
    Len(resolved) = 2 => resolved[1].identity = resolved[2].identity

\* C13: two resolutions with the same two cookie values, the same accounts
\* and the same clock value have the same outcome (the same Identity, or
\* the same error) when a guest cookie is presented or the first one
\* resolves to an account.
C13_SameOutcomeTwice ==
    (/\ Len(resolved) = 2
     /\ resolved[1].when = resolved[2].when
     /\ \/ resolved[1].guest # NoSid
        \/ resolved[1].raised
        \/ resolved[1].identity[1] = "account") =>
        /\ resolved[1].raised = resolved[2].raised
        /\ resolved[1].identity = resolved[2].identity

\* A guest cookie and an expired token resolved twice to the same guest.
C13_Witness ==
    /\ Len(resolved) = 2
    /\ resolved[1].when = resolved[2].when
    /\ \E m \in minted : resolved[1].auth = m.token /\ m.user_id = 1
    /\ resolved[1].when > 14 * 24 * 3600 * TicksPerSecond
    /\ resolved[1].guest \in ClientSids
    /\ resolved[2].identity = <<"guest", resolved[1].guest>>

\* The row is owned by the identity of request q: the account of its auth
\* cookie on the web entry points, else the guest of its guest cookie, or
\* of the session id generated for it when it has none.
OwnedByIdentityOf(q, row) ==
    IF q.kind \in WebKinds /\ q.auth # 0
    THEN row.user_id = q.auth /\ row.session_id = NoSid
    ELSE /\ row.user_id = 0
         /\ row.session_id # NoSid
         /\ row.session_id = IF q.sid # NoSid THEN q.sid ELSE q.use_sid

\* get_or_create of the request in slot r returns an existing row and
\* inserts nothing: the row is owned by the identity and is its only row.
ReturnsExistingRow(r) ==
    (req[r].pc = "idle" /\ req'[r].pc = "handle") =>
        /\ progress' = progress
        /\ OwnedByIdentityOf(req'[r], progress[req'[r].pid])
        /\ \A j \in RowIds :
               OwnedByIdentityOf(req'[r], progress[j]) => j = req'[r].pid

\* get_or_create of the request in slot r finds no row of the identity and
\* inserts exactly one, owned by it, with the initial counters.
InsertsOneFreshRow(r) ==
    /\ (req[r].pc = "idle" /\ req'[r].pc = "insert") =>
           /\ progress' = progress
           /\ \A j \in RowIds : ~OwnedByIdentityOf(req'[r], progress[j])
    /\ (req[r].pc = "insert" /\ req'[r].pc # "insert") =>
           /\ Len(progress') = Len(progress) + 1
           /\ SubSeq(progress', 1, Len(progress)) = progress
           /\ LET row == progress'[Len(progress')] IN
                /\ OwnedByIdentityOf(req[r], row)
                /\ row.risk_score = 50
                /\ row.total_attempted = 0
                /\ row.correct_count = 0
                /\ row.current_streak = 0

\* C14: get_or_create returns the existing row of an identity and inserts
\* nothing; for an identity with no row it inserts exactly one fresh row
\* owned by it; a further call for the identity returns the same row
\* (stated as the original claim; the loser of a creation race inserts
\* nothing or a second row, after which the identity has two rows).
C14_GetOrCreate ==
    [][\A r \in Slots : ReturnsExistingRow(r) /\ InsertsOneFreshRow(r)]_vars

\* The registration in slot r commits the re-keying of its guest's row in
\* this step.
CommitsLink(r) == req[r].pc = "reg_link" /\ req'[r].pc = "idle"

\* The re-keying of row i to account u, as the specification words it.
Rekeyed(row, u) ==
    [session_id |-> NoSid, user_id |-> u, risk_score |-> row.risk_score,
     total_attempted |-> row.total_attempted,
     correct_count |-> row.correct_count,
     current_streak |-> row.current_streak]

\* The update of a migration changes the owner of the guest's row and
\* nothing else in the store.
LinkChangesOwnerOnly(r) ==
    CommitsLink(r) =>
        /\ Len(progress') = Len(progress)
        /\ \A j \in RowIds :
               progress'[j] = IF j = req[r].pid
                              THEN Rekeyed(progress[j], req[r].user)
                              ELSE progress[j]
        /\ req[r].user \in 1..Len(users)
        /\ attempts' = attempts
        /\ users' = users

\* C15: a registration with the link option gives the row keyed by the
\* guest cookie user_id = the new account id and session_id = null in one
\* update, leaves its id, counters and Attempt rows unchanged, and the
\* account's next resolution returns that row (stated as the original
\* claim; an account that logged in and got a row before the update has
\* two rows after it).
C15_MigrationKeepsProgress ==
    [][\A r \in Slots :
          /\ LinkChangesOwnerOnly(r)
          /\ CommitsLink(r) =>
                 { j \in 1..Len(progress') :
                     progress'[j].user_id = req[r].user } = {req[r].pid}]_vars

\* The registration in slot r, its account inserted, looks for the row of
\* its guest cookie and there is none.
FindsNoGuestRow(r) ==
    /\ req[r].pc = "reg_find"
    /\ \A j \in RowIds : progress[j].session_id # req[r].sid

\* C16: when no Progress row is keyed by the presented guest session id,
\* migration is a no-op: the registration completes, every Progress row
\* keeps its owner and counters and every Attempt row stays; and an account
\* that owns no row gets a fresh one on its resolution.
C16_MigrationNoOp ==
    [][\A r \in Slots :
          /\ (FindsNoGuestRow(r) /\ req'[r] # req[r]) =>
                 /\ req'[r].pc = "idle"
                 /\ progress' = progress
                 /\ attempts' = attempts
                 /\ tokens' = tokens \cup {req[r].user}
          /\ (/\ req[r].pc = "insert"
              /\ req[r].kind \in WebKinds
              /\ req[r].auth # 0
              /\ req'[r].pc # "insert") =>
                 progress' = Append(progress,
                     [session_id |-> NoSid, user_id |-> req[r].auth,
                      risk_score |-> 50, total_attempted |-> 0,
                      correct_count |-> 0, current_streak |-> 0])]_vars

\* A first registration has migrated the row born under a generated session
\* id; a second registration with the same cookie and the link option has
\* inserted its account and finds no row to migrate.
C16_Witness ==
    \E r \in Slots :
        /\ FindsNoGuestRow(r)
        /\ req[r].link
        /\ req[r].sid = Uuid(1)
        /\ req[r].user = 2
        /\ uuids = 1
        /\ Len(progress) = 1
        /\ progress[1].user_id = 1
        /\ 1 \in tokens

\* C17: whenever a registration re-keys a guest row to its account, that
\* account owns no Progress row immediately before (stated as the original
\* claim; the account can log in and get a row between the commit of its
\* user row and the migration).
C17_LinkOnlyToRowlessAccount ==
    [][\A r \in Slots :
          CommitsLink(r) =>
              \A j \in RowIds : progress[j].user_id # req[r].user]_vars

\* C18: a Progress row is re-keyed at most once: once its user_id is set, no
\* step changes its user_id or gives it a session_id (stated as the original
\* claim; two registrations presenting the same guest cookie can both find
\* the row before either re-keys it).
C18_RekeyedAtMostOnce ==
    [][\A j \in RowIds :
          progress[j].user_id # 0 =>
              /\ j <= Len(progress')
              /\ progress'[j].user_id = progress[j].user_id
              /\ progress'[j].session_id = NoSid]_vars

\* The step stores the submission of slot r whole: its Attempt row, and on
\* its Progress row the counters the handler incremented.
StoresSubmission(r) ==
    LET q == req[r] IN
    /\ attempts' = Append(attempts,
                          NewAttempt(q.pid, q.scenario_id, q.choice_index))
    /\ Len(progress') = Len(progress)
    /\ \A j \in RowIds : j # q.pid => progress'[j] = progress[j]
    /\ progress'[q.pid].total_attempted = q.ld.total_attempted + 1
    /\ ChoiceOf(q.scenario_id, q.choice_index).is_safe =>
           progress'[q.pid].correct_count = q.ld.correct_count + 1

\* C19: the step that ends an accepted submission stores its Progress
\* mutation and its Attempt row together or, when the commit fails, leaves
\* the Progress rows and the Attempt rows exactly as they were; and an
\* Attempt row is only ever added by such a step.
C19_SubmissionAtomic ==
    [][/\ \A r \in Slots :
            CommitsSubmission(r) =>
                \/ StoresSubmission(r)
                \/ progress' = progress /\ attempts' = attempts
       /\ Len(attempts') > Len(attempts) =>
            \E r \in Slots : CommitsSubmission(r) /\ StoresSubmission(r)]_vars

\* One submission is committed: its Attempt row is stored and its row counts
\* one attempt.
C19_Witness ==
    /\ Len(attempts) = 1
    /\ progress[attempts[1].progress_id].total_attempted = 1
    /\ \A r \in Slots : req[r].pc = "idle"

\* The request q is a submission the handlers reject: its scenario does not
\* exist or its choice index is out of range.
InvalidSubmission(q) ==
    /\ q.kind \in SubmitKinds
    /\ ~ChoiceValid(q.scenario_id, q.choice_index)

\* C20: no step of a submission that names a non-existent scenario or an
\* out-of-range choice creates or changes a Progress row or inserts an
\* Attempt row (stated as the original claim; the Progress row of a caller
\* seen for the first time is inserted before the submission is validated).
C20_RejectedMutatesNothing ==
    [][\A r \in Slots :
          ((InvalidSubmission(req[r]) \/ InvalidSubmission(req'[r]))
               /\ req'[r] # req[r]) =>
              /\ progress' = progress
              /\ attempts' = attempts]_vars

\* The part of C20 that holds: a rejected submission changes no existing
\* Progress row and inserts no Attempt row.
C20_RejectedKeepsExistingRows ==
    [][\A r \in Slots :
          ((InvalidSubmission(req[r]) \/ InvalidSubmission(req'[r]))
               /\ req'[r] # req[r]) =>
              /\ \A j \in RowIds : progress'[j] = progress[j]
              /\ attempts' = attempts]_vars

\* C21: the step that commits a reset of row i deletes every Attempt row of
\* row i, stores risk_score 50 and zero counters on it and keeps its owner;
\* every other Progress row and every other Attempt row is unchanged (stated
\* as the original claim; a reset that loaded the row before a concurrent
\* submission committed writes no column).
C21_ResetEffect ==
    [][\A r \in Slots : \A i \in RowIds :
          CommitsResetOf(r, i) =>
              /\ attempts' = SelectSeq(attempts, LAMBDA a : a.progress_id # i)
              /\ Len(progress') = Len(progress)
              /\ progress'[i] = [progress[i] EXCEPT
                                   !.risk_score = 50, !.total_attempted = 0,
                                   !.correct_count = 0, !.current_streak = 0]
              /\ \A j \in RowIds : j # i => progress'[j] = progress[j]]_vars

\* The part of C21 that holds under every interleaving: the attempts of the
\* row are deleted, its owner stays and no other row or attempt changes.
C21_ResetFrame ==
    [][\A r \in Slots : \A i \in RowIds :
          CommitsResetOf(r, i) =>
              /\ attempts' = SelectSeq(attempts, LAMBDA a : a.progress_id # i)
              /\ Len(progress') = Len(progress)
              /\ progress'[i].session_id = progress[i].session_id
              /\ progress'[i].user_id = progress[i].user_id
              /\ \A j \in RowIds : j # i => progress'[j] = progress[j]]_vars

\* The result list has been computed and reports achievement id unlocked.
Reported(id) ==
    \E k \in 1..Len(score_out.achievements) :
        /\ score_out.achievements[k].id = id
        /\ score_out.achievements[k].unlocked

AchievementsComputed == Len(score_out.achievements) = 3

\* Three attempts in a row, none unsafe, somewhere in the history h.
HasThreeSafeInARow(h) ==
    \E k \in 1..(Len(h) - 2) : h[k].is_safe /\ h[k + 1].is_safe /\ h[k + 2].is_safe

\* C22: for every chronologically ordered history, no_click_hero is unlocked
\* exactly when the history holds three consecutive safe attempts.
C22_NoClickHero ==
    AchievementsComputed =>
        (Reported("no_click_hero") <=> HasThreeSafeInARow(score_in.attempts))

\* The history safe, safe, unsafe, safe, safe, safe: unlocked.
C22_Witness ==
    /\ AchievementsComputed
    /\ Len(score_in.attempts) = 6
    /\ \A k \in 1..6 : score_in.attempts[k].is_safe <=> (k # 3)
    /\ Reported("no_click_hero")

\* C23: phishing_detector is unlocked exactly when the row's correct_count
\* is at least 5, whatever the attempt history and the other two
\* achievements are.
C23_PhishingDetector ==
    AchievementsComputed =>
        (Reported("phishing_detector") <=> score_in.correct_count >= 5)

\* correct_count 5 with a history of unsafe attempts only: phishing_detector
\* alone is unlocked.
C23_Witness ==
    /\ AchievementsComputed
    /\ score_in.correct_count = 5
    /\ Len(score_in.attempts) = 2
    /\ \A k \in 1..2 : ~score_in.attempts[k].is_safe
    /\ Reported("phishing_detector")
    /\ ~Reported("no_click_hero")
    /\ ~Reported("calm_under_pressure")

\* C24: calm_under_pressure is unlocked exactly when at least two attempts
\* of the history are safe and carry the tactic Urgency.
C24_CalmUnderPressure ==
    AchievementsComputed =>
        (Reported("calm_under_pressure") <=>
            \E j, k \in 1..Len(score_in.attempts) :
                /\ j < k
                /\ score_in.attempts[j].is_safe
                /\ score_in.attempts[j].tactic = "Urgency"
                /\ score_in.attempts[k].is_safe
                /\ score_in.attempts[k].tactic = "Urgency")

\* One safe Urgency attempt, two unsafe Urgency attempts and two safe
\* attempts of another tactic: not unlocked.
C24_Witness ==
    /\ AchievementsComputed
    /\ Len(score_in.attempts) = 5
    /\ Cardinality({ k \in 1..5 : /\ score_in.attempts[k].tactic = "Urgency"
                                  /\ score_in.attempts[k].is_safe }) = 1
    /\ Cardinality({ k \in 1..5 : /\ score_in.attempts[k].tactic = "Urgency"
                                  /\ ~score_in.attempts[k].is_safe }) = 2
    /\ Cardinality({ k \in 1..5 : /\ score_in.attempts[k].tactic # "Urgency"
                                  /\ score_in.attempts[k].is_safe }) = 2
    /\ ~Reported("calm_under_pressure")

\* Achievement k of the result list is unlocked for the row p with the
\* attempts atts.
Unlocked(k, p, atts) == compute_achievements(p, atts)[k].unlocked

\* C25: an achievement unlocked for a Progress row stays unlocked over every
\* step that is not a reset of the row, and after the step that commits a
\* reset of the row none of the three is unlocked (stated as the original
\* claim; a submission that loaded the row before others committed writes
\* back a smaller correct_count).
C25_AchievementsStayUnlocked ==
    [][\A i \in RowIds : \A k \in 1..3 :
          /\ (/\ Unlocked(k, progress[i], AttemptsOf(i))
              /\ ~\E r \in Slots : CommitsResetOf(r, i)) =>
                 Unlocked(k, progress'[i],
                          SelectSeq(attempts', LAMBDA a : a.progress_id = i))
          /\ (\E r \in Slots : CommitsResetOf(r, i)) =>
                 ~Unlocked(k, progress'[i],
                           SelectSeq(attempts', LAMBDA a : a.progress_id = i))]_vars

\* The part of C25 that holds under every interleaving: the two achievements
\* computed from the Attempt rows stay unlocked until a reset, and a reset
\* locks them.
C25_HistoryAchievementsStay ==
    [][\A i \in RowIds : \A k \in {1, 3} :
          /\ (/\ Unlocked(k, progress[i], AttemptsOf(i))
              /\ ~\E r \in Slots : CommitsResetOf(r, i)) =>
                 Unlocked(k, progress'[i],
                          SelectSeq(attempts', LAMBDA a : a.progress_id = i))
          /\ (\E r \in Slots : CommitsResetOf(r, i)) =>
                 ~Unlocked(k, progress'[i],
                           SelectSeq(attempts', LAMBDA a : a.progress_id = i))]_vars

\* The mistake count the breakdown b gives to tactic t.
MistakesOf(b, t) ==
    LET k == CHOOSE k \in 1..Len(b) : b[k].tactic = t IN b[k].mistake_count

\* The five tactics by descending mistake count, ties by the fixed priority
\* Urgency, Authority, Scarcity, Reciprocity, Fear; the zero-mistake
\* tactics thereby come last, in priority order.
ByMistakesThenPriority(b) ==
    LET n == Len(TACTIC_TIPS)
        rank(i) == 1 + Cardinality({ j \in 1..n :
                         \/ MistakesOf(b, TACTIC_TIPS[j]) > MistakesOf(b, TACTIC_TIPS[i])
                         \/ /\ MistakesOf(b, TACTIC_TIPS[j]) = MistakesOf(b, TACTIC_TIPS[i])
                            /\ j < i })
    IN  [k \in 1..n |-> TACTIC_TIPS[CHOOSE i \in 1..n : rank(i) = k]]

ExpectedTips(b, max_tips) ==
    SubSeq(ByMistakesThenPriority(b), 1,
           IF max_tips < Len(TACTIC_TIPS) THEN max_tips ELSE Len(TACTIC_TIPS))

\* The breakdown lists the tactics in the fixed priority order.
ListedInPriorityOrder(b) ==
    \A k \in 1..Len(b) : b[k].tactic = TACTIC_TIPS[k]

\* C26: for every listing order of the breakdown, every assignment of
\* mistake counts and every max_tips >= 0 the result is the first
\* min(max_tips, 5) tactics by descending mistake count, ties by the fixed
\* priority, zero-mistake tactics last (stated as the original claim; ties
\* follow the order in which the breakdown lists the entries).
C26_TipsByMistakesThenPriority ==
    score_out.called =>
        score_out.tips = ExpectedTips(score_in.breakdown, score_in.max_tips)

\* The tactics with mistakes by descending mistake count, ties in the order
\* in which the breakdown b lists them.
WeakByListing(b) ==
    LET weak == { i \in 1..Len(b) : b[i].mistake_count > 0 }
        rank(i) == 1 + Cardinality({ j \in weak :
                         \/ b[j].mistake_count > b[i].mistake_count
                         \/ b[j].mistake_count = b[i].mistake_count /\ j < i })
    IN  [k \in 1..Cardinality(weak) |->
            b[CHOOSE i \in weak : rank(i) = k].tactic]

\* The tactics without mistakes in the fixed priority order.
ZeroByPriority(b) ==
    SelectSeq(TACTIC_TIPS, LAMBDA t : MistakesOf(b, t) = 0)

\* C26 as the code has it: min(max_tips, 5) tips with no tactic repeated,
\* first the tactics with mistakes in descending mistake count, ties in the
\* order of the breakdown list, then the zero-mistake tactics in the fixed
\* priority order; for a breakdown listed in the fixed priority order, as
\* result_get and get_stats build it, this is the claimed result.
C26_TipsByMistakesThenListing ==
    score_out.called =>
        LET b == score_in.breakdown
            all == WeakByListing(b) \o ZeroByPriority(b)
            n == IF score_in.max_tips < 5 THEN score_in.max_tips ELSE 5
        IN  /\ score_out.tips = SubSeq(all, 1, n)
            /\ Len(score_out.tips) = n
            /\ \A j, k \in 1..n : j # k => score_out.tips[j] # score_out.tips[k]
            /\ ListedInPriorityOrder(b) =>
                   score_out.tips = ExpectedTips(b, score_in.max_tips)

\* Urgency 2, Fear 1 and no other mistakes, listed in priority order, with
\* max_tips = 3: Urgency, Fear, and Authority as padding.
C26_Witness ==
    /\ score_out.called
    /\ ListedInPriorityOrder(score_in.breakdown)
    /\ score_in.max_tips = 3
    /\ \A k \in 1..5 :
          score_in.breakdown[k].mistake_count =
              (IF k = 1 THEN 2 ELSE IF k = 5 THEN 1 ELSE 0)
    /\ score_out.tips = << "Urgency", "Fear", "Authority" >>

\* C27: from the same Progress state, scenario and choice index, POST /train
\* and POST /api/attempts store the same risk_score, total_attempted,
\* correct_count and current_streak and the same Attempt row, and that
\* result is the attempt step on the given state.
C27_SameTransition ==
    (score_out.train # << >> /\ score_out.attempt # << >>) =>
        /\ score_out.train = score_out.attempt
        /\ LET choice == ChoiceOf(score_in.scenario_id, score_in.choice_index)
           IN score_out.train[1].progress =
                  RecordAttempt(score_in.ld, choice.is_safe, choice.score_delta)

\* Both entry points have handled an unsafe choice on a row with a streak;
\* both store the streak 0 and one more attempt.
C27_Witness ==
    /\ score_out.train # << >>
    /\ score_out.attempt # << >>
    /\ score_in.ld.current_streak = 2
    /\ ~ChoiceOf(score_in.scenario_id, score_in.choice_index).is_safe
    /\ score_out.train[1].progress.current_streak = 0
    /\ score_out.attempt[1].progress.current_streak = 0
    /\ score_out.attempt[1].progress.total_attempted = score_in.ld.total_attempted + 1
    /\ ~score_out.attempt[1].attempt.is_safe

\* The normalized email e belongs to an account.
BelongsToAccount(e) ==
    \E i \in 1..Len(users) : _normalize_email(users[i].email) = e

\* C28: no two Account rows have the same normalized email after any step;
\* a registration whose normalized email already belongs to an account,
\* whether it finds that at its query or at its insert, ends without a new
\* account, without a change to any Progress row and without a token.
C28_UniqueEmail ==
    [][/\ \A i, j \in 1..Len(users') :
            i # j => _normalize_email(users'[i].email)
                       # _normalize_email(users'[j].email)
       /\ \A r \in Slots :
            (/\ req[r].pc = "reg_insert"
             /\ BelongsToAccount(_normalize_email(req[r].email))
             /\ req'[r] # req[r]) =>
                /\ req'[r].pc = "idle"
                /\ users' = users
                /\ progress' = progress
                /\ tokens' = tokens
       /\ (nreq' = nreq + 1 /\ req' = req) =>
            /\ users' = users
            /\ progress' = progress
            /\ tokens' = tokens
       /\ users' # users =>
            /\ Len(users') = Len(users) + 1
            /\ ~BelongsToAccount(users'[Len(users')].email)]_vars

\* Two registrations with the emails "a" and " A" both passed the query;
\* the first has inserted its account and the second is at its insert.
C28_Witness ==
    \E r \in Slots :
        /\ req[r].pc = "reg_insert"
        /\ req[r].email = << " ", "A" >>
        /\ users = << [email |-> << "a" >>] >>

\* The handler in slot r, which holds a request, ends in this step.
Ends(r) == req[r].pc # "idle" /\ req'[r].pc = "idle"

\* C29: a response sets the guest cookie only when the request carried none:
\* the step that ends a request presenting a guest cookie sets no guest
\* cookie, the step that ends a request resolved to an account sets none,
\* and a cookie that is set is the session_id of a guest-owned row, set by a
\* request without guest cookie.
C29_CookieOnlyWhenAbsent ==
    [][/\ \A r \in Slots :
            (Ends(r) /\ (req[r].sid # NoSid \/ CurrentUser(req[r]) # 0)) =>
                jar' = jar
       /\ jar' # jar =>
            /\ \E r \in Slots :
                  Ends(r) /\ req[r].sid = NoSid /\ CurrentUser(req[r]) = 0
            /\ \E i \in 1..Len(progress') :
                  /\ jar' = jar \cup {progress'[i].session_id}
                  /\ progress'[i].user_id = 0]_vars

\* A request without guest cookie was answered with the generated id as its
\* cookie, and a request presenting its own cookie was answered without one.
C29_Witness ==
    /\ jar = { Uuid(1) }
    /\ \E i, j \in RowIds :
          /\ progress[i].session_id = Uuid(1)
          /\ progress[j].session_id = << "cookie", 1 >>
    /\ \A r \in Slots : req[r].pc = "idle"

\* The session id under which the request in slot r, which carried no guest
\* cookie and resolved to no account, had its Progress row created.
GeneratedSid(r) ==
    IF req[r].pc = "insert" THEN req[r].use_sid
    ELSE progress[req[r].pid].session_id

\* The request in slot r came without guest cookie and was resolved as a
\* guest: get_or_create_session_id generated its session id.
CookielessGuest(r) ==
    /\ req[r].kind \in WebKinds \cup ApiKinds
    /\ req[r].sid = NoSid
    /\ CurrentUser(req[r]) = 0

\* C30: the step that ends a request for which a session id was generated
\* and a guest row created sets the guest cookie to that id, on every entry
\* point (stated as the original claim; the API handlers set no cookie).
C30_GeneratedIdIsSet ==
    [][\A r \in Slots :
          (Ends(r) /\ CookielessGuest(r)) => GeneratedSid(r) \in jar']_vars

\* The part of C30 that holds: a web request that is answered with its page
\* or redirect gets the cookie.
C30_WebResponseSetsId ==
    [][\A r \in Slots :
          (/\ Ends(r)
           /\ CookielessGuest(r)
           /\ req[r].kind \in WebKinds
           /\ (req[r].kind \in SubmitKinds =>
                  /\ ChoiceValid(req[r].scenario_id, req[r].choice_index)
                  /\ attempts' # attempts)) =>
              GeneratedSid(r) \in jar']_vars

\* The step of the handler in slot r creates or mutates Progress only for
\* the account of the auth cookie its request carries: a row it inserts
\* belongs to that account, and the row it holds for its commit does too.
WorksOnAccountRow(r) ==
    /\ (req[r].pc = "insert" /\ Len(progress') = Len(progress) + 1) =>
           /\ progress'[Len(progress')].user_id = req[r].auth
           /\ progress'[Len(progress')].session_id = NoSid
    /\ req[r].pc = "handle" =>
           /\ progress[req[r].pid].user_id = req[r].auth
           /\ progress[req[r].pid].session_id = NoSid

\* C31: a request that carries a valid auth cookie of an existing account
\* creates and mutates only the Progress row keyed by that account, on
\* every entry point that uses progress, and never a guest-owned row
\* (stated as the original claim; the API resolves progress from the guest
\* cookie alone).
C31_AuthRequestUsesAccountRow ==
    [][\A r \in Slots :
          (/\ req[r].auth # 0
           /\ req[r].kind \in WebKinds \cup ApiKinds
           /\ req'[r] # req[r]) => WorksOnAccountRow(r)]_vars

\* The part of C31 that holds: the same for the web entry points.
C31_WebAuthRequestUsesAccountRow ==
    [][\A r \in Slots :
          (/\ req[r].auth # 0
           /\ req[r].kind \in WebKinds
           /\ req'[r] # req[r]) => WorksOnAccountRow(r)]_vars

\* The Attempt rows of row i that record a safe choice.
SafeAttemptsOf(i) == SelectSeq(AttemptsOf(i), LAMBDA a : a.is_safe)

\* C32: in every reachable state each Progress row's total_attempted is the
\* number of its Attempt rows and its correct_count the number of those
\* with is_safe true (stated as the original claim; two submissions that
\* both read the row before either commits store two Attempt rows and
\* count one).
C32_CountersMatchAttempts ==
    \A i \in RowIds :
        /\ progress[i].total_attempted = Len(AttemptsOf(i))
        /\ progress[i].correct_count = Len(SafeAttemptsOf(i))

\* C33: the step that stores an accepted submission changes only the
\* Progress row the request was resolved to, and on it only the score and
\* the counters; it appends exactly one Attempt row for that row, carrying
\* the scenario's tactic and the chosen option's is_safe; every other
\* Progress row, every existing Attempt row and every Account row is
\* unchanged.
C33_SubmissionFrame ==
    [][\A r \in Slots :
          (CommitsSubmission(r) /\ <<progress, attempts>>' # <<progress, attempts>>) =>
              LET q == req[r] IN
              /\ Len(attempts') = Len(attempts) + 1
              /\ \A k \in 1..Len(attempts) : attempts'[k] = attempts[k]
              /\ attempts'[Len(attempts')] =
                     [progress_id |-> q.pid, scenario_id |-> q.scenario_id,
                      choice_index |-> q.choice_index,
                      is_safe |-> Scenarios[q.scenario_id].choices[q.choice_index + 1].is_safe,
                      tactic |-> Scenarios[q.scenario_id].tactic]
              /\ Len(progress') = Len(progress)
              /\ \A j \in RowIds : j # q.pid => progress'[j] = progress[j]
              /\ progress'[q.pid].session_id = progress[q.pid].session_id
              /\ progress'[q.pid].user_id = progress[q.pid].user_id
              /\ users' = users]_vars

\* Two guests have a row each; the unsafe answer of one of them to the
\* Authority scenario is stored on its row and the other row holds the
\* initial values.
C33_Witness ==
    /\ Len(progress) = 2
    /\ \E i, j \in RowIds :
          /\ progress[i].session_id = << "cookie", 1 >>
          /\ progress[i].total_attempted = 0
          /\ progress[i].risk_score = INITIAL_RISK_SCORE
          /\ progress[j].session_id = Uuid(1)
          /\ progress[j].total_attempted = 1
          /\ attempts = << [progress_id |-> j, scenario_id |-> 2,
                            choice_index |-> 1, is_safe |-> FALSE,
                            tactic |-> "Authority"] >>

\* The handler in slot r serves a request without auth cookie on an entry
\* point that uses progress.
GuestRequest(q) ==
    /\ q.kind \in WebKinds \cup ApiKinds
    /\ q.auth = 0

\* The Progress rows owned by accounts, and the Attempt rows of those.
AccountRows == { j \in RowIds : progress[j].user_id # 0 }

AccountRowsUntouched ==
    /\ \A j \in AccountRows : progress'[j] = progress[j]
    /\ SelectSeq(attempts', LAMBDA a : a.progress_id \in AccountRows)
         = SelectSeq(attempts, LAMBDA a : a.progress_id \in AccountRows)

\* C34: a request without auth cookie is never resolved to an account-owned
\* row, also when its guest cookie is the one a migrated row was keyed by:
\* the row it is given is guest-owned, the row it inserts is a fresh guest
\* row with the initial counters, and its steps on a guest-owned row leave
\* every account-owned row and the attempts of those rows unchanged.
C34_OldCookieIsolated ==
    [][\A r \in Slots :
          /\ (/\ req'[r].pc = "handle"
              /\ req[r].pc # "handle"
              /\ GuestRequest(req'[r])) =>
                 /\ progress'[req'[r].pid].user_id = 0
                 /\ progress'[req'[r].pid].session_id # NoSid
          /\ (/\ req[r].pc = "insert"
              /\ GuestRequest(req[r])
              /\ req'[r] # req[r]
              /\ progress' # progress) =>
                 progress' = Append(progress,
                     [session_id |-> req[r].use_sid, user_id |-> 0,
                      risk_score |-> 50, total_attempted |-> 0,
                      correct_count |-> 0, current_streak |-> 0])
          /\ (/\ req[r].pc \in {"insert", "handle"}
              /\ GuestRequest(req[r])
              /\ req'[r] # req[r]
              /\ req[r].pc = "handle" => progress[req[r].pid].user_id = 0) =>
                 AccountRowsUntouched]_vars

\* C34 read for every request without auth cookie, whenever it began: none
\* of its steps changes an account-owned row (a submission that loaded the
\* guest row before the migration committed stores its counters on the
\* re-keyed row).
C34_NoGuestStepOnAccountRow ==
    [][\A r \in Slots :
          (/\ req[r].pc \in {"insert", "handle"}
           /\ GuestRequest(req[r])
           /\ req'[r] # req[r]) => AccountRowsUntouched]_vars

\* The row of the guest with cookie <<"cookie", 1>> was migrated to account
\* 1 with one attempt counted; a later request with that cookie alone got a
\* separate guest row with the initial counters, and the account's row and
\* attempt are as the migration left them.
C34_Witness ==
    /\ Len(progress) = 2
    /\ progress[1].user_id = 1
    /\ progress[1].session_id = NoSid
    /\ progress[1].total_attempted = 1
    /\ Len(AttemptsOf(1)) = 1
    /\ progress[2] = [session_id |-> << "cookie", 1 >>, user_id |-> 0,
                      risk_score |-> 50, total_attempted |-> 0,
                      correct_count |-> 0, current_streak |-> 0]
    /\ \A r \in Slots : req[r].pc = "idle"

====
